---- MODULE Spec2Model ----
(***************************************************************************)
(* Model of the prediction engine of NBA-over-predictor (src/model.py):    *)
(* the monotonicity cache (enforce_monotonicity, clear_cache) and the      *)
(* tiered decision policy (final_over_probability).                        *)
(*                                                                         *)
(* Numbers.  Points and thresholds are integers in one common unit.        *)
(* Probabilities handled by enforce_monotonicity are integers counting     *)
(* 1/Unit of a percentage point; Unit is a power of two large enough that  *)
(* every halving the enforcer performs between two resets is exact, so     *)
(* the model computes what the float arithmetic computes on these dyadic   *)
(* values.  Probabilities of a DecisionOutcome are integers counting       *)
(* hundredths of a percentage point (the result of round(x, 2)).           *)
(***************************************************************************)
EXTENDS Integers, Sequences, FiniteSets, TLC

VARIABLES
    cache,      \* _probability_cache: fingerprint -> (threshold -> probability)
    evals,      \* number of enforce_monotonicity calls since the last clear_cache
    call,       \* the last operation on the cache, its inputs and its result
    returned,   \* history: fingerprint -> (threshold -> last probability returned)
    df,         \* the frame of the entity being predicted
    out,        \* the last DecisionOutcome of final_over_probability
    first,      \* history: the first call of the behaviour and its outcome
    running,    \* the enforce_monotonicity calls in progress in request threads
    request,    \* the table text of the request being served, and how parsing it ended
    feat        \* the columns build_advanced_features last added to the frame

vars == <<cache, evals, call, returned, df, out, first, running, request, feat>>

----------------------------------------------------------------------------
(* Bounds *)

\* enforce_monotonicity calls between two clear_cache calls
MaxCalls == 4

\* enforce_monotonicity calls final_over_probability makes between two
\* clear_cache calls
MaxPredicts == 2

\* the same, where the first call of the behaviour is remembered
MaxIdemCalls == 1

\* games of the longest series
MaxGames == 36

\* rows of the longest table text
MaxRows == 5

\* games of the longest series build_advanced_features is called on by itself
MaxStreakGames == 6

\* enforce_monotonicity calls made on a cache that earlier calls filled
MaxSeededCalls == 2

\* thresholds one request evaluates in ascending or descending order
MaxOrderedCalls == 4

\* repetitions of one enforce_monotonicity call
MaxRepeats == 2

----------------------------------------------------------------------------
(* Numbers *)

\* units per percentage point
Unit == 2 ^ (MaxCalls + MaxPredicts + MaxIdemCalls)

\* 0.5 percentage points, the cap of a correction (model.py:72, model.py:95)
HalfPoint == Unit \div 2

Pct(n) == n * Unit

Min(a, b) == IF a < b THEN a ELSE b
Max(a, b) == IF a > b THEN a ELSE b

\* a value pandas / numpy reports as absent (NaN)
NaN == -1

\* a Python dict with no key
EmptyDict == [k \in {} |-> 0]

\* Put on a dict that holds two keys at most: a third key evicts another
PutBounded(d, k, v) ==
    LET keys == (DOMAIN d) \cup {k}
        evicted == IF Cardinality(keys) > 2 THEN {CHOOSE x \in keys \ {k} : TRUE} ELSE {}
    IN  [x \in keys \ evicted |-> IF x = k THEN v ELSE d[x]]

\* d[k] = v of a Python dict
Put(d, k, v) == [x \in (DOMAIN d) \cup {k} |-> IF x = k THEN v ELSE d[x]]

SetMin(S) == CHOOSE m \in S : \A x \in S : m <= x

RECURSIVE SortedDescending(_)
\* Sorted with the greatest number first
SortedDescending(S) ==
    IF S = {} THEN <<>>
    ELSE LET m == CHOOSE x \in S : \A y \in S : y <= x
         IN  <<m>> \o SortedDescending(S \ {m})

RECURSIVE Sorted(_)
\* sorted(keys): the ascending list of a set of numbers
Sorted(S) == IF S = {} THEN <<>> ELSE <<SetMin(S)>> \o Sorted(S \ {SetMin(S)})

\* list.index(x), 1-based
IndexOf(seq, x) == SetMin({i \in 1..Len(seq) : seq[i] = x})

\* df.tail(k)
DfTail(series, k) ==
    IF Len(series) <= k THEN series
    ELSE SubSeq(series, Len(series) - k + 1, Len(series))

----------------------------------------------------------------------------
(* Inputs *)

\* thresholds ("lines") a caller asks for
Thresholds == {15, 20, 25}

\* raw ensemble scores, in 1/Unit of a percentage point:
\* 0, 50, 50.5 and 100 percent
RawProbs == {Pct(0), Pct(50), Pct(50) + HalfPoint, Pct(100)}

\* A frame (the DataFrame parse_player_csv returns): PTS is the column of
\* points in date order, NaN where the points are absent; stats tells whether
\* the statistic columns build_advanced_features reads are all present.
Frame(pts, stats) == [PTS |-> pts, stats |-> stats]

\* the series of n games that repeats the pattern pat
Cyc(n, pat) == [i \in 1..n |-> pat[((i - 1) % Len(pat)) + 1]]

\* patterns of the series too short for the ensemble tier
Patterns == {<<10, 30>>, <<20>>, <<22, NaN, 18>>, <<NaN>>, <<10, 10, 30>>}

ShortCounts == {0, 1, 4, 5, 9}

\* patterns of the series long enough for the ensemble tier
LongPatterns == {<<18, 22>>, <<20>>, <<22, NaN, 18>>, <<NaN>>}

LongCounts == {10, 11, 15, 25, MaxGames}

\* the frames final_over_probability is called on
Frames ==
    {Frame(Cyc(n, pat), TRUE) : n \in ShortCounts, pat \in Patterns}
    \cup {Frame(Cyc(n, pat), TRUE) : n \in LongCounts, pat \in LongPatterns}
    \cup {Frame(Cyc(10, <<18, 30>>), TRUE),
          Frame(<<30, 10, 10, 10, 10, 10, 10, 10, 10, 10>>, TRUE)}
    \cup {Frame(Cyc(n, <<18, 22>>), FALSE) : n \in {5, 10}}
    \cup {Frame(Cyc(n, <<18, 22>>), TRUE) : n \in {14, 24}}

\* the frames handed to enforce_monotonicity directly
EnforceSeries == {Frame(<<10, 30, 10, 30, 10>>, TRUE), Frame(<<30, 10, 30, 10, 30>>, TRUE)}

----------------------------------------------------------------------------
(* enforce_monotonicity, model.py:24-121 *)

RecentGames == 35

\* values of the identity-based hash of a NaN element of the tuple
NanSalts == {0, 1}

HasNaN(pts) == \E i \in 1..Len(pts) : pts[i] = NaN

\* hash(tuple(df.tail(35)['PTS'].values)): the set of fingerprints a call can
\* compute.  The hash is modelled as injective on the tuple of numbers; the
\* hash of a NaN element depends on the identity of the float object, so a
\* tuple holding one hashes to a value that may or may not repeat.
GetPlayerHash(d) ==
    LET recent_pts == DfTail(d.PTS, RecentGames)
    IN  IF HasNaN(recent_pts)
        THEN {<<recent_pts, s>> : s \in NanSalts}
        ELSE {<<recent_pts, 0>>}

\* AdjustDown with the decrement not capped
AdjustDownUncapped(prev_prob, raw_probability) ==
    Max(0, prev_prob - (raw_probability - prev_prob) \div 2)

\* the decrement of a downward correction, and the corrected value
AdjustDown(prev_prob, raw_probability) ==
    Max(0, prev_prob - Min(HalfPoint, (raw_probability - prev_prob) \div 2))

\* AdjustUp without the clamp to 100
AdjustUpUnclamped(next_prob, raw_probability) ==
    next_prob + Min(HalfPoint, (next_prob - raw_probability) \div 2)

\* AdjustUp with the increment added to the raw probability instead of the
\* higher threshold's
AdjustUpFromRaw(next_prob, raw_probability) ==
    Min(Pct(100), raw_probability + Min(HalfPoint, (next_prob - raw_probability) \div 2))

\* the increment of an upward correction, and the corrected value
AdjustUp(next_prob, raw_probability) ==
    Min(Pct(100), next_prob + Min(HalfPoint, (next_prob - raw_probability) \div 2))

\* the bucket of a fingerprint, created empty when absent (model.py:42-45)
Bucket(c, h) == IF h \in DOMAIN c THEN c[h] ELSE EmptyDict

\* EnforceMonotonicity without the check against the higher threshold
EnforceMonotonicityLowerOnly(c, h, threshold, raw_probability) ==
    LET b0 == Put(Bucket(c, h), threshold, raw_probability)
        sorted_thresholds == Sorted(DOMAIN b0)
        current_idx == IndexOf(sorted_thresholds, threshold)
        has_prev == current_idx > 1
        prev_threshold == sorted_thresholds[current_idx - 1]
        raw_ml == [probability |-> raw_probability, adjusted |-> FALSE,
                   method |-> "raw_ml"]
    IN  IF Len(sorted_thresholds) = 1
        THEN [cache |-> Put(c, h, b0), result |-> raw_ml]
        ELSE IF has_prev /\ raw_probability > b0[prev_threshold]
        THEN LET adjusted_prob == AdjustDown(b0[prev_threshold], raw_probability)
             IN  [cache |-> Put(c, h, Put(b0, threshold, adjusted_prob)),
                  result |-> [probability |-> adjusted_prob, adjusted |-> TRUE,
                              method |-> "adjusted_down_from_lower"]]
        ELSE [cache |-> Put(c, h, b0), result |-> raw_ml]

\* EnforceMonotonicity averaging the raw probability with the one the bucket
\* already holds for the threshold
EnforceMonotonicitySmoothed(c, h, threshold, raw_probability) ==
    LET b == Bucket(c, h)
        smoothed == IF threshold \in DOMAIN b
                    THEN (b[threshold] + raw_probability) \div 2
                    ELSE raw_probability
        b0 == Put(b, threshold, smoothed)
        sorted_thresholds == Sorted(DOMAIN b0)
        current_idx == IndexOf(sorted_thresholds, threshold)
        has_prev == current_idx > 1
        prev_threshold == sorted_thresholds[current_idx - 1]
        has_next == current_idx < Len(sorted_thresholds)
        next_threshold == sorted_thresholds[current_idx + 1]
        raw_ml == [probability |-> smoothed, adjusted |-> FALSE,
                   method |-> "raw_ml"]
    IN  IF Len(sorted_thresholds) = 1
        THEN [cache |-> Put(c, h, b0), result |-> raw_ml]
        ELSE IF has_prev /\ smoothed > b0[prev_threshold]
        THEN LET adjusted_prob == AdjustDown(b0[prev_threshold], smoothed)
             IN  [cache |-> Put(c, h, Put(b0, threshold, adjusted_prob)),
                  result |-> [probability |-> adjusted_prob, adjusted |-> TRUE,
                              method |-> "adjusted_down_from_lower"]]
        ELSE IF has_next /\ smoothed < b0[next_threshold]
        THEN LET adjusted_prob == AdjustUp(b0[next_threshold], smoothed)
             IN  [cache |-> Put(c, h, Put(b0, threshold, adjusted_prob)),
                  result |-> [probability |-> adjusted_prob, adjusted |-> TRUE,
                              method |-> "adjusted_up_from_higher"]]
        ELSE [cache |-> Put(c, h, b0), result |-> raw_ml]

\* EnforceMonotonicity correcting a probability equal to a neighbour's too
EnforceMonotonicityEager(c, h, threshold, raw_probability) ==
    LET b0 == Put(Bucket(c, h), threshold, raw_probability)
        sorted_thresholds == Sorted(DOMAIN b0)
        current_idx == IndexOf(sorted_thresholds, threshold)
        has_prev == current_idx > 1
        prev_threshold == sorted_thresholds[current_idx - 1]
        has_next == current_idx < Len(sorted_thresholds)
        next_threshold == sorted_thresholds[current_idx + 1]
        raw_ml == [probability |-> raw_probability, adjusted |-> FALSE,
                   method |-> "raw_ml"]
    IN  IF Len(sorted_thresholds) = 1
        THEN [cache |-> Put(c, h, b0), result |-> raw_ml]
        ELSE IF has_prev /\ raw_probability >= b0[prev_threshold]
        THEN LET adjusted_prob == AdjustDown(b0[prev_threshold], raw_probability)
             IN  [cache |-> Put(c, h, Put(b0, threshold, adjusted_prob)),
                  result |-> [probability |-> adjusted_prob, adjusted |-> TRUE,
                              method |-> "adjusted_down_from_lower",
                              original_prob |-> raw_probability,
                              reference_threshold |-> prev_threshold,
                              reference_prob |-> b0[prev_threshold]]]
        ELSE IF has_next /\ raw_probability <= b0[next_threshold]
        THEN LET adjusted_prob == AdjustUp(b0[next_threshold], raw_probability)
             IN  [cache |-> Put(c, h, Put(b0, threshold, adjusted_prob)),
                  result |-> [probability |-> adjusted_prob, adjusted |-> TRUE,
                              method |-> "adjusted_up_from_higher",
                              original_prob |-> raw_probability,
                              reference_threshold |-> next_threshold,
                              reference_prob |-> b0[next_threshold]]]
        ELSE [cache |-> Put(c, h, b0), result |-> raw_ml]

\* EnforceMonotonicity returning the corrected value without storing it
EnforceMonotonicityKeepsRaw(c, h, threshold, raw_probability) ==
    LET b0 == Put(Bucket(c, h), threshold, raw_probability)
        sorted_thresholds == Sorted(DOMAIN b0)
        current_idx == IndexOf(sorted_thresholds, threshold)
        has_prev == current_idx > 1
        prev_threshold == sorted_thresholds[current_idx - 1]
        has_next == current_idx < Len(sorted_thresholds)
        next_threshold == sorted_thresholds[current_idx + 1]
        raw_ml == [probability |-> raw_probability, adjusted |-> FALSE,
                   method |-> "raw_ml"]
    IN  IF Len(sorted_thresholds) = 1
        THEN [cache |-> Put(c, h, b0), result |-> raw_ml]
        ELSE IF has_prev /\ raw_probability > b0[prev_threshold]
        THEN LET adjusted_prob == AdjustDown(b0[prev_threshold], raw_probability)
             IN  [cache |-> Put(c, h, b0),
                  result |-> [probability |-> adjusted_prob, adjusted |-> TRUE,
                              method |-> "adjusted_down_from_lower",
                              original_prob |-> raw_probability,
                              reference_threshold |-> prev_threshold,
                              reference_prob |-> b0[prev_threshold]]]
        ELSE IF has_next /\ raw_probability < b0[next_threshold]
        THEN LET adjusted_prob == AdjustUp(b0[next_threshold], raw_probability)
             IN  [cache |-> Put(c, h, b0),
                  result |-> [probability |-> adjusted_prob, adjusted |-> TRUE,
                              method |-> "adjusted_up_from_higher",
                              original_prob |-> raw_probability,
                              reference_threshold |-> next_threshold,
                              reference_prob |-> b0[next_threshold]]]
        ELSE [cache |-> Put(c, h, b0), result |-> raw_ml]

\* EnforceMonotonicity looking at the higher neighbour before the lower one
EnforceMonotonicityHigherFirst(c, h, threshold, raw_probability) ==
    LET b0 == Put(Bucket(c, h), threshold, raw_probability)
        sorted_thresholds == Sorted(DOMAIN b0)
        current_idx == IndexOf(sorted_thresholds, threshold)
        has_prev == current_idx > 1
        prev_threshold == sorted_thresholds[current_idx - 1]
        has_next == current_idx < Len(sorted_thresholds)
        next_threshold == sorted_thresholds[current_idx + 1]
        raw_ml == [probability |-> raw_probability, adjusted |-> FALSE,
                   method |-> "raw_ml"]
    IN  IF Len(sorted_thresholds) = 1
        THEN [cache |-> Put(c, h, b0), result |-> raw_ml]
        ELSE IF has_next /\ raw_probability < b0[next_threshold]
        THEN LET adjusted_prob == AdjustUp(b0[next_threshold], raw_probability)
             IN  [cache |-> Put(c, h, Put(b0, threshold, adjusted_prob)),
                  result |-> [probability |-> adjusted_prob, adjusted |-> TRUE,
                              method |-> "adjusted_up_from_higher",
                              original_prob |-> raw_probability,
                              reference_threshold |-> next_threshold,
                              reference_prob |-> b0[next_threshold]]]
        ELSE IF has_prev /\ raw_probability > b0[prev_threshold]
        THEN LET adjusted_prob == AdjustDown(b0[prev_threshold], raw_probability)
             IN  [cache |-> Put(c, h, Put(b0, threshold, adjusted_prob)),
                  result |-> [probability |-> adjusted_prob, adjusted |-> TRUE,
                              method |-> "adjusted_down_from_lower",
                              original_prob |-> raw_probability,
                              reference_threshold |-> prev_threshold,
                              reference_prob |-> b0[prev_threshold]]]
        ELSE [cache |-> Put(c, h, b0), result |-> raw_ml]

\* The whole call: the cache after it and the dict it returns.
EnforceMonotonicity(c, h, threshold, raw_probability) ==
    LET b0 == Put(Bucket(c, h), threshold, raw_probability)
        sorted_thresholds == Sorted(DOMAIN b0)
        current_idx == IndexOf(sorted_thresholds, threshold)
        has_prev == current_idx > 1
        prev_threshold == sorted_thresholds[current_idx - 1]
        has_next == current_idx < Len(sorted_thresholds)
        next_threshold == sorted_thresholds[current_idx + 1]
        raw_ml == [probability |-> raw_probability, adjusted |-> FALSE,
                   method |-> "raw_ml"]
    IN  IF Len(sorted_thresholds) = 1
        THEN [cache |-> Put(c, h, b0), result |-> raw_ml]
        ELSE IF has_prev /\ raw_probability > b0[prev_threshold]
        THEN LET adjusted_prob == AdjustDown(b0[prev_threshold], raw_probability)
             IN  [cache |-> Put(c, h, Put(b0, threshold, adjusted_prob)),
                  result |-> [probability |-> adjusted_prob, adjusted |-> TRUE,
                              method |-> "adjusted_down_from_lower",
                              original_prob |-> raw_probability,
                              reference_threshold |-> prev_threshold,
                              reference_prob |-> b0[prev_threshold]]]
        ELSE IF has_next /\ raw_probability < b0[next_threshold]
        THEN LET adjusted_prob == AdjustUp(b0[next_threshold], raw_probability)
             IN  [cache |-> Put(c, h, Put(b0, threshold, adjusted_prob)),
                  result |-> [probability |-> adjusted_prob, adjusted |-> TRUE,
                              method |-> "adjusted_up_from_higher",
                              original_prob |-> raw_probability,
                              reference_threshold |-> next_threshold,
                              reference_prob |-> b0[next_threshold]]]
        ELSE [cache |-> Put(c, h, b0), result |-> raw_ml]

\* clear_cache without its global statement: the module's cache is kept
ClearedCacheLocal == cache

\* clear_cache dropping one bucket only
ClearedCacheOneBucket ==
    IF cache = EmptyDict THEN EmptyDict
    ELSE [h \in (DOMAIN cache) \ {CHOOSE k \in DOMAIN cache : TRUE} |-> cache[h]]

\* clear_cache(): the cache after it
ClearedCache == EmptyDict

----------------------------------------------------------------------------
(* parse_player_csv, model.py:127-168 *)

\* a field left blank, which read_csv reads as NaN
Blank == NaN

\* a field holding text that is not a number ("Inactive", "Did Not Play")
Marker == -2

\* one line of the table: its rank, its date (a day number) and its points
Row(rk, date, pts) == [Rk |-> rk, Date |-> date, PTS |-> pts]

\* a table text: the names of its header and its lines; no name at all is
\* a text with no header line
Text(columns, rows) == [columns |-> columns, rows |-> rows]

\* pd.to_numeric(value, errors="coerce")
ToNumeric(value) == IF value = Marker THEN NaN ELSE value

\* model.py:132-133: the rows with a rank and a date
Kept(row) == row.Rk # Blank /\ row.Date # Blank

\* the position of the earliest row among those at the positions left
Earliest(rows, left) ==
    CHOOSE i \in left : \A j \in left : rows[i].Date <= rows[j].Date

RECURSIVE SortFrom(_, _)
SortFrom(rows, left) ==
    IF left = {} THEN <<>>
    ELSE <<rows[Earliest(rows, left)]>> \o SortFrom(rows, left \ {Earliest(rows, left)})

\* df.sort_values("Date").reset_index(drop=True), for rows of distinct dates
SortValues(rows) == SortFrom(rows, 1..Len(rows))

Failure(error) == [error |-> error]

\* The whole call: the frame it returns or the exception it raises.
ParsePlayerCsv(csv_text) ==
    IF csv_text.columns = {} THEN Failure("EmptyDataError")
    ELSE IF "Rk" \notin csv_text.columns THEN Failure("KeyError")
    ELSE IF "Date" \notin csv_text.columns THEN Failure("KeyError")
    ELSE IF "MP" \notin csv_text.columns THEN Failure("KeyError")
    ELSE LET rows == SortValues(SelectSeq(csv_text.rows, Kept))
         IN  [error |-> "none",
              frame |-> Frame([i \in 1..Len(rows) |-> ToNumeric(rows[i].PTS)],
                              "FGA" \in csv_text.columns)]

----------------------------------------------------------------------------
(* final_over_probability, model.py:323-453: the pure parts *)

\* round-half-to-even of a / b (a >= 0, b > 0), as round() rounds an exact tie
RoundHalfEven(a, b) ==
    LET q == a \div b
        r == a % b
    IN  IF 2 * r < b THEN q
        ELSE IF 2 * r > b THEN q + 1
        ELSE IF q % 2 = 0 THEN q ELSE q + 1

\* round(x, 2) of a probability given in 1/Unit of a percentage point:
\* hundredths of a percentage point
Round2(x) == RoundHalfEven(100 * x, Unit)

\* Gt with the comparison not strict
GtOrEqual(p, point_line) == p # NaN /\ p >= point_line

\* Series.gt(point_line): False where the points are absent
Gt(p, point_line) == p # NaN /\ p > point_line

Overs(pts, point_line) == {i \in 1..Len(pts) : Gt(pts[i], point_line)}

\* round(df_recent["PTS"].gt(point_line).mean() * 100, 2); the mean of an
\* empty column is NaN and round(NaN, 2) is NaN
EmpiricalProb(pts, point_line) ==
    IF Len(pts) = 0 THEN NaN
    ELSE RoundHalfEven(10000 * Cardinality(Overs(pts, point_line)), Len(pts))

Present(pts) == {i \in 1..Len(pts) : pts[i] # NaN}

\* the k-th smallest of the present points (1 <= k <= number present): the
\* least value with at least k present points at or below it
OrderStat(pts, k) ==
    LET present == Present(pts)
        values == {pts[i] : i \in present}
    IN  SetMin({v \in values : Cardinality({i \in present : pts[i] <= v}) >= k})

\* 20 * Series.quantile(q20 / 20), linear interpolation between the order
\* statistics around position (m - 1) * q20 / 20; NaN when no point is present
Quantile20(pts, q20) ==
    LET m == Cardinality(Present(pts))
        pos == (m - 1) * q20
        lo == pos \div 20
        fr == pos % 20
        below == OrderStat(pts, lo + 1)
    IN  IF m = 0 THEN NaN
        ELSE IF fr = 0 THEN 20 * below
        ELSE 20 * below + fr * (OrderStat(pts, lo + 2) - below)

\* point_line > df_recent["PTS"].quantile(0.95); False against NaN
ExtremeHigh(pts, point_line) ==
    LET max_realistic == Quantile20(pts, 19)
    IN  max_realistic # NaN /\ 20 * point_line > max_realistic

\* point_line < df_recent["PTS"].quantile(0.05); False against NaN
ExtremeLow(pts, point_line) ==
    LET min_realistic == Quantile20(pts, 1)
    IN  min_realistic # NaN /\ 20 * point_line < min_realistic

\* adaptive windows of build_advanced_features
WShort(n) == Min(5, Max(3, n \div 4))
WMedium(n) == Min(10, Max(5, n \div 3))

\* observations in the window of w rows ending at row i
RollingCount(pts, i, w) ==
    Cardinality({j \in Max(1, i - w + 1)..i : pts[j] # NaN})

\* FeatureRows with min_periods equal to the window lengths
FeatureRowsFullWindow(pts) ==
    {i \in 1..Len(pts) :
        /\ RollingCount(pts, i, WShort(Len(pts))) >= WShort(Len(pts))
        /\ RollingCount(pts, i, WMedium(Len(pts))) >= WMedium(Len(pts))}

\* the rows left by dropna(subset=["avg_pts_last5", "avg_pts_last10"]):
\* rolling(w_short, min_periods=2) and rolling(w_medium, min_periods=3) defined
FeatureRows(pts) ==
    {i \in 1..Len(pts) :
        /\ RollingCount(pts, i, WShort(Len(pts))) >= 2
        /\ RollingCount(pts, i, WMedium(Len(pts))) >= 3}

\* LabelClasses with the label taken over all recent games, not the feature frame
LabelClassesRecent(pts, df_feat, point_line) ==
    {Gt(pts[i], point_line) : i \in 1..Len(pts)}

\* y.nunique() of the label column of the feature frame
LabelClasses(pts, df_feat, point_line) == {Gt(pts[i], point_line) : i \in df_feat}

RECURSIVE WeightSum(_, _, _)
\* sum, over the rows 1..k whose flag is set, of the weight
\* np.linspace(0.5, 1.0, n) gives the row, scaled by 2 (n - 1): row i of n
\* weighs n + i - 2
WeightSum(flags, n, k) ==
    IF k = 0 THEN 0
    ELSE (IF flags[k] THEN n + k - 2 ELSE 0) + WeightSum(flags, n, k - 1)

\* round(np.average(over, weights=np.linspace(0.5, 1.0, n_games)) * 100, 2)
WeightedProb(pts, point_line) ==
    LET n == Len(pts)
        over == [i \in 1..n |-> Gt(pts[i], point_line)]
        all == [i \in 1..n |-> TRUE]
    IN  RoundHalfEven(10000 * WeightSum(over, n, n), WeightSum(all, n, n))

\* Confidence with both boundaries exclusive
ConfidenceAbove(n_games) ==
    IF n_games > 25 THEN "high" ELSE IF n_games > 15 THEN "medium" ELSE "low"

RECURSIVE StreakLoopMirrored(_, _, _)
\* StreakLoop with a broken streak restarting at the mirror of its length
StreakLoopMirrored(series, threshold, k) ==
    IF k = 0 THEN [streaks |-> <<>>, current_streak |-> 0]
    ELSE LET before == StreakLoopMirrored(series, threshold, k - 1)
             val == series[k]
             current_streak ==
                IF val = NaN THEN before.current_streak
                ELSE IF val > threshold
                THEN (IF before.current_streak >= 0 THEN before.current_streak + 1
                      ELSE -before.current_streak)
                ELSE (IF before.current_streak <= 0 THEN before.current_streak - 1
                      ELSE -before.current_streak)
         IN  [streaks |-> Append(before.streaks, IF val = NaN THEN 0 ELSE current_streak),
              current_streak |-> current_streak]

RECURSIVE StreakLoopGapResets(_, _, _)
\* StreakLoop with the counter reset by a game with absent points
StreakLoopGapResets(series, threshold, k) ==
    IF k = 0 THEN [streaks |-> <<>>, current_streak |-> 0]
    ELSE LET before == StreakLoopGapResets(series, threshold, k - 1)
             val == series[k]
             current_streak ==
                IF val = NaN THEN 0
                ELSE IF val > threshold
                THEN (IF before.current_streak >= 0 THEN before.current_streak + 1 ELSE 1)
                ELSE (IF before.current_streak <= 0 THEN before.current_streak - 1 ELSE -1)
         IN  [streaks |-> Append(before.streaks, current_streak),
              current_streak |-> current_streak]

RECURSIVE StreakLoop(_, _, _)
\* get_streak after the first k values of the series (model.py:235-245): the
\* list built so far and the running counter
StreakLoop(series, threshold, k) ==
    IF k = 0 THEN [streaks |-> <<>>, current_streak |-> 0]
    ELSE LET before == StreakLoop(series, threshold, k - 1)
             val == series[k]
             current_streak ==
                IF val = NaN THEN before.current_streak
                ELSE IF val > threshold
                THEN (IF before.current_streak >= 0 THEN before.current_streak + 1 ELSE 1)
                ELSE (IF before.current_streak <= 0 THEN before.current_streak - 1 ELSE -1)
         IN  [streaks |-> Append(before.streaks, IF val = NaN THEN 0 ELSE current_streak),
              current_streak |-> current_streak]

\* get_streak(series, threshold), model.py:234-246
GetStreak(series, threshold) == StreakLoop(series, threshold, Len(series)).streaks

\* the columns of build_advanced_features(df, point_line) the model keeps: the
\* streak, and the rows where both rolling averages of the points are defined
BuildAdvancedFeatures(pts, point_line) ==
    [built |-> TRUE, point_line |-> point_line,
     streak |-> GetStreak(pts, point_line), rows |-> FeatureRows(pts)]

\* model.py:421
Confidence(n_games) ==
    IF n_games >= 25 THEN "high" ELSE IF n_games >= 15 THEN "medium" ELSE "low"

\* What the ensemble does on a feature frame is outside the model: an answer
\* is either a raw score or the failure it ends in.
Answer(fault, raw) == [fault |-> fault, raw |-> raw]

Answers ==
    {Answer("none", p) : p \in RawProbs}
    \cup {Answer("Non abbastanza feature valide", 0), Answer("estimator", 0)}

\* FallbackError with the unweighted over-rate
FallbackErrorUnweighted(pts, point_line, message) ==
    [probability |-> EmpiricalProb(pts, point_line), confidence |-> "low",
     method_used |-> <<"fallback_error", message>>,
     sample_size |-> Len(pts), adjusted |-> FALSE]

\* f"fallback_error ({str(e)[:50]})" is kept as the pair of its parts
FallbackError(pts, point_line, message) ==
    [probability |-> WeightedProb(pts, point_line), confidence |-> "low",
     method_used |-> <<"fallback_error", message>>,
     sample_size |-> Len(pts), adjusted |-> FALSE]

Empirical(pts, point_line, confidence, method) ==
    [probability |-> EmpiricalProb(pts, point_line), confidence |-> confidence,
     method_used |-> <<method, "">>, sample_size |-> Len(pts), adjusted |-> FALSE]

\* EnsembleOutcome calling enforce_monotonicity whatever enforce_mono says and
\* dropping its result when enforcement is off
EnsembleOutcomeAlwaysCaches(c, h, pts, df_feat, point_line, enforce_mono, raw_probability) ==
    LET mono == EnforceMonotonicity(c, h, point_line, raw_probability)
    IN  [cache |-> mono.cache, enforced |-> TRUE, mono |-> mono.result,
         out |-> [probability |-> Round2(IF enforce_mono THEN mono.result.probability
                                         ELSE raw_probability),
                  confidence |-> Confidence(Len(pts)),
                  method_used |-> IF enforce_mono
                                  THEN <<"ensemble_ml", mono.result.method>>
                                  ELSE <<"ensemble_ml", "no_adjustment">>,
                  sample_size |-> Cardinality(df_feat),
                  adjusted |-> enforce_mono /\ mono.result.adjusted]]

\* EnsembleOutcome with the flag of the enforcer dropped on the way out
EnsembleOutcomeFlagLost(c, h, pts, df_feat, point_line, enforce_mono, raw_probability) ==
    LET mono == EnforceMonotonicity(c, h, point_line, raw_probability)
    IN  [cache |-> IF enforce_mono THEN mono.cache ELSE c,
         enforced |-> enforce_mono,
         mono |-> IF enforce_mono THEN mono.result ELSE [method |-> "none"],
         out |-> [probability |-> Round2(IF enforce_mono THEN mono.result.probability
                                         ELSE raw_probability),
                  confidence |-> Confidence(Len(pts)),
                  method_used |-> IF enforce_mono
                                  THEN <<"ensemble_ml", mono.result.method>>
                                  ELSE <<"ensemble_ml", "no_adjustment">>,
                  sample_size |-> Cardinality(df_feat),
                  adjusted |-> FALSE]]

\* the ensemble tier after a score was produced (model.py:408-441)
EnsembleOutcome(c, h, pts, df_feat, point_line, enforce_mono, raw_probability) ==
    LET mono == EnforceMonotonicity(c, h, point_line, raw_probability)
        final_prob == IF enforce_mono THEN mono.result.probability ELSE raw_probability
        adjusted == IF enforce_mono THEN mono.result.adjusted ELSE FALSE
        method == IF enforce_mono THEN <<"ensemble_ml", mono.result.method>>
                  ELSE <<"ensemble_ml", "no_adjustment">>
        result == [probability |-> Round2(final_prob),
                   confidence |-> Confidence(Len(pts)),
                   method_used |-> method,
                   sample_size |-> Cardinality(df_feat),
                   adjusted |-> adjusted]
        info == [original_probability |-> Round2(raw_probability),
                 adjustment_info |->
                    [reference_threshold |-> mono.result.reference_threshold,
                     reference_prob |-> Round2(mono.result.reference_prob)]]
    IN  [cache |-> IF enforce_mono THEN mono.cache ELSE c,
         enforced |-> enforce_mono,
         mono |-> IF enforce_mono THEN mono.result ELSE [method |-> "none"],
         out |-> IF adjusted /\ enforce_mono
                 THEN [k \in (DOMAIN result) \cup (DOMAIN info) |->
                          IF k \in DOMAIN result THEN result[k] ELSE info[k]]
                 ELSE result]

\* Tier with the boundary of the first tier off by one
TierOffByOne(pts, stats, df_feat, point_line) ==
    IF Len(pts) <= 5 THEN "empirical_fallback"
    ELSE IF ExtremeHigh(pts, point_line) THEN "extreme_threshold_high"
    ELSE IF ExtremeLow(pts, point_line) THEN "extreme_threshold_low"
    ELSE IF ~stats THEN "feature_error"
    ELSE IF Cardinality(df_feat) < 8 THEN "weighted_empirical"
    ELSE "ensemble"

\* Tier with the feature-starved check ahead of the extreme-threshold checks
TierFeaturesFirst(pts, stats, df_feat, point_line) ==
    IF Len(pts) < 5 THEN "empirical_fallback"
    ELSE IF stats /\ Cardinality(df_feat) < 8 THEN "weighted_empirical"
    ELSE IF ExtremeHigh(pts, point_line) THEN "extreme_threshold_high"
    ELSE IF ExtremeLow(pts, point_line) THEN "extreme_threshold_low"
    ELSE IF ~stats THEN "feature_error"
    ELSE "ensemble"

\* The tier a call on the recent games pts settles on (model.py:337-391):
\* the branch taken before train_ensemble_model is called.  "ensemble"
\* is the branch that calls it; "feature_error" is build_advanced_features
\* raising on a statistic column the frame lacks.  df_feat is
\* FeatureRows(pts), the rows of the feature frame.
Tier(pts, stats, df_feat, point_line) ==
    IF Len(pts) < 5 THEN "empirical_fallback"
    ELSE IF ExtremeHigh(pts, point_line) THEN "extreme_threshold_high"
    ELSE IF ExtremeLow(pts, point_line) THEN "extreme_threshold_low"
    ELSE IF ~stats THEN "feature_error"
    ELSE IF Cardinality(df_feat) < 8 THEN "weighted_empirical"
    ELSE "ensemble"

\* The whole call on the recent games pts = df.tail(35) with the cache c: the
\* cache after it, the outcome, and whether enforce_monotonicity ran (with
\* what it returned).  df_feat is FeatureRows(pts), tier is
\* Tier(pts, stats, df_feat, point_line), h the fingerprint
\* enforce_monotonicity computes, answer what the ensemble does.
FinalOverProbability(c, pts, tier, df_feat, point_line, enforce_mono, answer, h) ==
    LET skip(o) == [cache |-> c, enforced |-> FALSE, mono |-> [method |-> "none"],
                    out |-> o]
    IN  IF tier = "empirical_fallback"
        THEN skip(Empirical(pts, point_line, "very_low", "empirical_fallback"))
        ELSE IF tier \in {"extreme_threshold_high", "extreme_threshold_low"}
        THEN skip(Empirical(pts, point_line, "low", tier))
        ELSE IF tier = "feature_error"
        THEN skip(FallbackError(pts, point_line, "KeyError"))
        ELSE IF tier = "weighted_empirical"
        THEN skip([probability |-> WeightedProb(pts, point_line),
                   confidence |-> "low",
                   method_used |-> <<"weighted_empirical", "">>,
                   sample_size |-> Len(pts), adjusted |-> FALSE])
        ELSE IF answer.fault = "Non abbastanza feature valide"
        THEN skip(FallbackError(pts, point_line, answer.fault))
        ELSE IF Cardinality(LabelClasses(pts, df_feat, point_line)) < 2
        THEN skip(FallbackError(pts, point_line,
                    "Soglia troppo estrema: nessuna variabilita OVER/UN"))
        ELSE IF answer.fault # "none"
        THEN skip(FallbackError(pts, point_line, answer.fault))
        ELSE EnsembleOutcome(c, h, pts, df_feat, point_line, enforce_mono, answer.raw)

----------------------------------------------------------------------------
(* State machine of the cache *)

NoCall == [op |-> "none"]
NoOutcome == [method_used |-> <<"none", "">>]
NoFirst == [set |-> FALSE]
NoThreads == [start |-> EmptyDict, thread |-> <<>>]
NoRequest == [status |-> "none"]
NoFeatures == [built |-> FALSE]

\* what preceded a call: the start, a clear_cache that removed buckets
\* ("wipe") or found none ("reset"), or another call
After(c) ==
    IF c.op = "none" THEN "start"
    ELSE IF c.op = "clear" THEN (IF c.wiped THEN "wipe" ELSE "reset")
    ELSE "call"

Init ==
    /\ cache = EmptyDict
    /\ evals = 0
    /\ call = NoCall
    /\ returned = EmptyDict
    /\ df = Frame(<<>>, TRUE)
    /\ out = NoOutcome
    /\ first = NoFirst
    /\ running = NoThreads
    /\ request = NoRequest
    /\ feat = NoFeatures

\* a direct call enforce_monotonicity(threshold, raw_probability, d), while
\* fewer than limit calls were counted
EnforceWithin(limit, d, threshold, raw_probability) ==
    /\ evals < limit
    /\ \E h \in GetPlayerHash(d) :
         \E r \in {EnforceMonotonicity(cache, h, threshold, raw_probability)} :
             /\ cache' = r.cache
             /\ call' = [op |-> "enforce", after |-> After(call), fp |-> h,
                         threshold |-> threshold, raw |-> raw_probability,
                         result |-> r.result]
             /\ returned' = Put(returned, h,
                                Put(Bucket(returned, h), threshold, r.result.probability))
    /\ evals' = evals + 1
    /\ UNCHANGED <<df, out, first, running, request, feat>>

Enforce(d, threshold, raw_probability) ==
    EnforceWithin(MaxCalls, d, threshold, raw_probability)

\* clear_cache()
ClearCache ==
    /\ cache' = ClearedCache
    /\ evals' = 0
    /\ call' = [op |-> "clear", wiped |-> cache # EmptyDict]
    /\ returned' = EmptyDict
    /\ UNCHANGED <<df, out, first, running, request, feat>>

Next ==
    \/ \E d \in EnforceSeries, t \in Thresholds, p \in RawProbs : Enforce(d, t, p)
    \/ ClearCache

Spec == Init /\ [][Next]_vars

----------------------------------------------------------------------------
(* State machine of the decision policy: the requests for one entity, in a *)
(* process whose cache may already hold the bucket of another entity       *)

\* the fingerprint of another entity
OtherHash == <<Cyc(12, <<18, 30>>), 0>>

\* what the cache holds when the first request for the entity arrives
PriorCaches ==
    {EmptyDict, EnforceMonotonicity(EmptyDict, OtherHash, 20, Pct(50)).cache}

InitPredict ==
    /\ cache \in PriorCaches
    /\ evals = Cardinality(DOMAIN cache)
    /\ call = NoCall
    /\ returned = cache
    /\ df \in Frames
    /\ out = NoOutcome
    /\ first = NoFirst
    /\ running = NoThreads
    /\ request = NoRequest
    /\ feat = NoFeatures

\* a call final_over_probability(df, point_line, 35, enforce_mono=enforce_mono);
\* the ensemble's answer and the fingerprint are drawn only where they are read
PredictWithin(limit, point_line, enforce_mono) ==
    \E pts \in {DfTail(df.PTS, RecentGames)} :
    \E df_feat \in {FeatureRows(pts)} :
    \E tier \in {Tier(pts, df.stats, df_feat, point_line)} :
    \E answer \in IF tier = "ensemble" THEN Answers ELSE {Answer("none", 0)} :
    \E h \in IF tier = "ensemble" THEN GetPlayerHash(df) ELSE {<<pts, 0>>} :
    \E r \in {FinalOverProbability(cache, pts, tier, df_feat, point_line,
                                   enforce_mono, answer, h)} :
       /\ r.enforced => evals < limit
       /\ cache' = r.cache
       /\ out' = r.out
       /\ evals' = IF r.enforced THEN evals + 1 ELSE evals
       /\ call' = IF r.enforced
                  THEN [op |-> "predict", after |-> After(call),
                        threshold |-> point_line, enforce_mono |-> enforce_mono,
                        answer |-> answer, enforced |-> TRUE,
                        fp |-> h, raw |-> answer.raw, result |-> r.mono]
                  ELSE [op |-> "predict", after |-> After(call),
                        threshold |-> point_line, enforce_mono |-> enforce_mono,
                        answer |-> answer, enforced |-> FALSE]
       /\ returned' = IF r.enforced
                      THEN Put(returned, h, Put(Bucket(returned, h), point_line,
                                                r.mono.probability))
                      ELSE returned
       /\ UNCHANGED <<df, running, request, feat>>

Predict(point_line, enforce_mono) ==
    PredictWithin(MaxPredicts, point_line, enforce_mono) /\ UNCHANGED first

NextPredict ==
    \/ \E t \in Thresholds, e \in BOOLEAN : Predict(t, e)
    \/ ClearCache

SpecPredict == InitPredict /\ [][NextPredict]_vars

----------------------------------------------------------------------------
(* The same requests, with the first call of the behaviour remembered *)

IdemFrames ==
    {Frame(Cyc(4, <<18, 22>>), TRUE), Frame(Cyc(10, <<18, 30>>), TRUE),
     Frame(Cyc(11, <<22, NaN, 18>>), TRUE), Frame(Cyc(10, <<20>>), TRUE)}

InitIdem ==
    /\ cache = EmptyDict
    /\ evals = 0
    /\ call = NoCall
    /\ returned = EmptyDict
    /\ df \in IdemFrames
    /\ out = NoOutcome
    /\ first = NoFirst
    /\ running = NoThreads
    /\ request = NoRequest
    /\ feat = NoFeatures

\* the same call, remembered if it is the first of the behaviour
PredictRemembered(point_line, enforce_mono) ==
    /\ PredictWithin(MaxIdemCalls, point_line, enforce_mono)
    /\ first' = IF first.set THEN first
                ELSE [set |-> TRUE, threshold |-> call'.threshold,
                      enforce_mono |-> call'.enforce_mono, answer |-> call'.answer,
                      out |-> out']

NextIdem ==
    \/ \E t \in Thresholds, e \in BOOLEAN : PredictRemembered(t, e)
    \/ ClearCache

SpecIdem == InitIdem /\ [][NextIdem]_vars

----------------------------------------------------------------------------
(* A request of /predict_multiple: the table text is parsed, then           *)
(* final_over_probability is called on the frame for each threshold         *)

\* the lines a game log holds: a game played, a game missed with the marker
\* in the statistic columns, and the line of totals, with no rank or date
RowKinds == {"played", "missed", "totals"}

\* the header lines: complete, or lacking one of the columns, or none
Headers ==
    {{"Rk", "Date", "MP", "PTS", "FGA"}, {"Date", "MP", "PTS", "FGA"},
     {"Rk", "MP", "PTS", "FGA"}, {"Rk", "Date", "PTS", "FGA"},
     {"Rk", "Date", "MP", "PTS"}}

\* the lines of the given kinds, dated oldest first or newest first; the
\* game of line i scored 10 i points
Lines(kinds, newest_first) ==
    [i \in 1..Len(kinds) |->
        IF kinds[i] = "totals" THEN Row(Blank, Blank, 99)
        ELSE Row(i, IF newest_first THEN Len(kinds) + 1 - i ELSE i,
                 IF kinds[i] = "played" THEN 10 * i ELSE Marker)]

Texts ==
    {Text({}, <<>>)}
    \cup {Text(columns, Lines(kinds, newest_first)) :
            columns \in Headers,
            kinds \in UNION {[1..n -> RowKinds] : n \in 0..MaxRows},
            newest_first \in BOOLEAN}

InitRequest ==
    /\ cache = EmptyDict
    /\ evals = 0
    /\ call = NoCall
    /\ returned = EmptyDict
    /\ df = Frame(<<>>, TRUE)
    /\ out = NoOutcome
    /\ first = NoFirst
    /\ running = NoThreads
    /\ feat = NoFeatures
    /\ \E csv_text \in Texts : request = [status |-> "received", csv |-> csv_text]

\* app.py:467: df = parse_player_csv(csv_text)
Normalize ==
    /\ request.status = "received"
    /\ \E r \in {ParsePlayerCsv(request.csv)} :
          IF r.error = "none"
          THEN /\ df' = r.frame
               /\ request' = [request EXCEPT !.status = "parsed"]
          ELSE /\ df' = df
               /\ request' = [status |-> "failed", csv |-> request.csv, error |-> r.error]
    /\ UNCHANGED <<cache, evals, call, returned, out, first, running, feat>>

\* app.py:470-473: final_over_probability(df, point_line=threshold, recent_games=35)
PredictParsed(threshold) ==
    /\ request.status = "parsed"
    /\ PredictWithin(MaxPredicts, threshold, TRUE)
    /\ UNCHANGED first

NextRequest ==
    \/ Normalize
    \/ \E t \in Thresholds : PredictParsed(t)

SpecRequest == InitRequest /\ [][NextRequest]_vars

----------------------------------------------------------------------------
(* build_advanced_features on its own: the frames are all the series of up *)
(* to MaxStreakGames games that scored 20 or 22 points or have none        *)

StreakPoints == {20, 22, NaN}

StreakFrames ==
    {Frame(pts, TRUE) : pts \in UNION {[1..n -> StreakPoints] : n \in 0..MaxStreakGames}}

InitFeatures ==
    /\ cache = EmptyDict
    /\ evals = 0
    /\ call = NoCall
    /\ returned = EmptyDict
    /\ df \in StreakFrames
    /\ out = NoOutcome
    /\ first = NoFirst
    /\ running = NoThreads
    /\ request = NoRequest
    /\ feat = NoFeatures

\* df_feat = build_advanced_features(df_recent, point_line)
BuildFeatures(point_line) ==
    /\ feat' = BuildAdvancedFeatures(DfTail(df.PTS, RecentGames), point_line)
    /\ UNCHANGED <<cache, evals, call, returned, df, out, first, running, request>>

NextFeatures == \E t \in Thresholds : BuildFeatures(t)

SpecFeatures == InitFeatures /\ [][NextFeatures]_vars

----------------------------------------------------------------------------
(* enforce_monotonicity on a cache that earlier calls for the fingerprint   *)
(* filled, with raw scores a quarter of a point apart                       *)

\* raw ensemble scores: 0, 50, 50.25, 50.5 and 100 percent
FineProbs == RawProbs \cup {Pct(50) + HalfPoint \div 2}

SeedHash == CHOOSE h \in GetPlayerHash(Frame(<<10, 30, 10, 30, 10>>, TRUE)) : TRUE

\* the calls made before, as <<threshold, raw_probability>>
Seeds ==
    {<<>>,
     <<<<15, Pct(100)>>, <<25, Pct(0)>>>>,
     <<<<15, Pct(50)>>, <<25, Pct(50)>>, <<20, Pct(0)>>>>,
     <<<<15, Pct(50)>>, <<25, Pct(50)>>, <<20, Pct(0)>>, <<25, Pct(50) + HalfPoint>>>>}

RECURSIVE Replay(_, _)
\* the cache after the first k calls of a seed, on a fresh cache
Replay(calls, k) ==
    IF k = 0 THEN EmptyDict
    ELSE EnforceMonotonicity(Replay(calls, k - 1), SeedHash, calls[k][1], calls[k][2]).cache

\* evals counts the calls made after those of the seed
InitSeeded ==
    /\ \E calls \in Seeds : cache = Replay(calls, Len(calls))
    /\ evals = 0
    /\ call = NoCall
    /\ returned = cache
    /\ df = Frame(<<>>, TRUE)
    /\ out = NoOutcome
    /\ first = NoFirst
    /\ running = NoThreads
    /\ request = NoRequest
    /\ feat = NoFeatures

EnforceSeeded(d, threshold, raw_probability) ==
    EnforceWithin(MaxSeededCalls, d, threshold, raw_probability)

NextSeeded ==
    \E d \in EnforceSeries, t \in Thresholds, p \in FineProbs : EnforceSeeded(d, t, p)

SpecSeeded == InitSeeded /\ [][NextSeeded]_vars

----------------------------------------------------------------------------
(* One request of /predict_multiple whose thresholds are listed in strictly *)
(* ascending or strictly descending order: the loop of app.py:470-480 calls *)
(* enforce_monotonicity once per threshold, in the order of the list, on a  *)
(* freshly reset cache.                                                     *)

OrderedThresholds == Thresholds \cup {30}

\* the series of the request; the last one holds absent points, so that its
\* calls need not all compute one fingerprint
OrderedSeries == EnforceSeries \cup {Frame(<<22, NaN, 18, 22, 18>>, TRUE)}

InitOrdered ==
    /\ cache = EmptyDict
    /\ evals = 0
    /\ call = NoCall
    /\ returned = EmptyDict
    /\ df \in OrderedSeries
    /\ out = NoOutcome
    /\ first = NoFirst
    /\ running = NoThreads
    /\ request = NoRequest
    /\ feat = NoFeatures

\* the thresholds evaluated so far
Evaluated == UNION {DOMAIN cache[h] : h \in DOMAIN cache}

\* threshold may follow the thresholds evaluated so far in a strictly
\* ascending or strictly descending list; call.threshold is the last of them
Follows(threshold) ==
    IF Evaluated = {} THEN TRUE
    ELSE \/ /\ \A t \in Evaluated : t <= call.threshold
            /\ threshold > call.threshold
         \/ /\ \A t \in Evaluated : t >= call.threshold
            /\ threshold < call.threshold

\* the next iteration of the loop
EnforceOrdered(threshold, raw_probability) ==
    /\ Follows(threshold)
    /\ EnforceWithin(MaxOrderedCalls, df, threshold, raw_probability)

NextOrdered ==
    \E t \in OrderedThresholds, p \in RawProbs : EnforceOrdered(t, p)

SpecOrdered == InitOrdered /\ [][NextOrdered]_vars

----------------------------------------------------------------------------
(* One enforce_monotonicity call made again with the same arguments, with   *)
(* no other call in between, on a cache that earlier calls filled.          *)

\* first remembers the call and what it returned and left
EnforceFirst(d, threshold, raw_probability) ==
    /\ ~first.set
    /\ \E h \in GetPlayerHash(d) :
         \E r \in {EnforceMonotonicity(cache, h, threshold, raw_probability)} :
             /\ cache' = r.cache
             /\ call' = [op |-> "enforce", after |-> After(call), fp |-> h,
                         threshold |-> threshold, raw |-> raw_probability,
                         result |-> r.result]
             /\ returned' = Put(returned, h,
                                Put(Bucket(returned, h), threshold, r.result.probability))
             /\ first' = [set |-> TRUE, fp |-> h, threshold |-> threshold,
                          raw |-> raw_probability, result |-> r.result,
                          cache |-> r.cache]
    /\ evals' = evals + 1
    /\ UNCHANGED <<df, out, running, request, feat>>

\* the same call once more
EnforceAgain ==
    /\ first.set
    /\ evals < 1 + MaxRepeats
    /\ \E r \in {EnforceMonotonicity(cache, first.fp, first.threshold, first.raw)} :
         /\ cache' = r.cache
         /\ call' = [op |-> "enforce", after |-> After(call), fp |-> first.fp,
                     threshold |-> first.threshold, raw |-> first.raw,
                     result |-> r.result]
         /\ returned' = Put(returned, first.fp,
                            Put(Bucket(returned, first.fp), first.threshold,
                                r.result.probability))
    /\ evals' = evals + 1
    /\ UNCHANGED <<df, out, first, running, request, feat>>

NextRepeated ==
    \/ \E d \in EnforceSeries, t \in Thresholds, p \in FineProbs : EnforceFirst(d, t, p)
    \/ EnforceAgain

SpecRepeated == InitSeeded /\ [][NextRepeated]_vars

----------------------------------------------------------------------------
(* enforce_monotonicity called by two request threads at once, for the same *)
(* fingerprint.  The function takes no lock, so a thread switch can fall    *)
(* between any two of its statements; a step below is one statement, or a  *)
(* run of statements that touch the thread's locals only.                  *)

Threads == {1, 2}

\* the fingerprint both requests compute
ConcHash == CHOOSE h \in GetPlayerHash(Frame(<<10, 30, 10, 30, 10>>, TRUE)) : TRUE

\* what the cache holds when the two requests arrive
ConcCaches ==
    {EmptyDict, EnforceMonotonicity(EmptyDict, ConcHash, 20, Pct(50)).cache}

\* the locals of a thread entering enforce_monotonicity(threshold, raw_probability, df)
Entering(threshold, raw_probability) ==
    [pc |-> "check", threshold |-> threshold, raw |-> raw_probability,
     bound |-> "none", own |-> EmptyDict, sorted_thresholds |-> <<>>,
     ref_prob |-> 0, result |-> [method |-> "none"]]

InitConcurrent ==
    /\ cache \in ConcCaches
    /\ evals = 0
    /\ call = NoCall
    /\ returned = EmptyDict
    /\ df = Frame(<<10, 30, 10, 30, 10>>, TRUE)
    /\ out = NoOutcome
    /\ first = NoFirst
    /\ request = NoRequest
    /\ feat = NoFeatures
    /\ \E t1, t2 \in Thresholds, p1, p2 \in RawProbs :
          running = [start |-> cache,
                     thread |-> [t \in Threads |->
                                    IF t = 1 THEN Entering(t1, p1) ELSE Entering(t2, p2)]]

Local(t) == running.thread[t]

\* the dict the local variable cache of thread t refers to: the bucket the
\* module's cache holds for the fingerprint, or a dict no longer reachable
\* from it
Deref(t) == IF Local(t).bound = "orphan" THEN Local(t).own ELSE cache[ConcHash]

\* the thread's locals change to loc, the other thread's stay
Resume(t, loc) ==
    running' = [running EXCEPT !.thread[t] = loc]

\* cache[key] = value through the local variable of thread t
Assign(t, key, value, loc) ==
    IF Local(t).bound = "orphan"
    THEN /\ Resume(t, [loc EXCEPT !.own = Put(Local(t).own, key, value)])
         /\ UNCHANGED cache
    ELSE /\ Resume(t, loc)
         /\ cache' = Put(cache, ConcHash, Put(cache[ConcHash], key, value))

\* model.py:42: if player_hash not in _probability_cache
TestBucket(t) ==
    /\ Local(t).pc = "check"
    /\ Resume(t, [Local(t) EXCEPT
                    !.pc = IF ConcHash \in DOMAIN cache THEN "bind" ELSE "create"])
    /\ UNCHANGED <<cache, evals, call, returned, df, out, first, request, feat>>

\* model.py:43: _probability_cache[player_hash] = {}; a thread that holds the
\* dict this replaces keeps it, cut off from the module's cache
CreateBucket(t) ==
    /\ Local(t).pc = "create"
    /\ cache' = Put(cache, ConcHash, EmptyDict)
    /\ running' = [running EXCEPT !.thread =
          [u \in Threads |->
              IF u = t THEN [Local(t) EXCEPT !.pc = "bind"]
              ELSE IF Local(u).bound = "shared"
                   THEN [Local(u) EXCEPT !.bound = "orphan", !.own = cache[ConcHash]]
                   ELSE Local(u)]]
    /\ UNCHANGED <<evals, call, returned, df, out, first, request, feat>>

\* model.py:45: cache = _probability_cache[player_hash]
BindBucket(t) ==
    /\ Local(t).pc = "bind"
    /\ Resume(t, [Local(t) EXCEPT !.pc = "store", !.bound = "shared"])
    /\ UNCHANGED <<cache, evals, call, returned, df, out, first, request, feat>>

\* model.py:48: cache[threshold] = raw_probability
StoreRaw(t) ==
    /\ Local(t).pc = "store"
    /\ Assign(t, Local(t).threshold, Local(t).raw, [Local(t) EXCEPT !.pc = "sort"])
    /\ UNCHANGED <<evals, call, returned, df, out, first, request, feat>>

RawMl(t) == [probability |-> Local(t).raw, adjusted |-> FALSE, method |-> "raw_ml"]

\* model.py:51-59: sorted_thresholds = sorted(cache.keys()), and the return
\* when it holds one threshold
SortKeys(t) ==
    /\ Local(t).pc = "sort"
    /\ \E keys \in {Sorted(DOMAIN Deref(t))} :
          Resume(t, IF Len(keys) = 1
                    THEN [Local(t) EXCEPT !.pc = "done", !.sorted_thresholds = keys,
                                          !.result = RawMl(t)]
                    ELSE [Local(t) EXCEPT !.pc = "lower", !.sorted_thresholds = keys])
    /\ UNCHANGED <<cache, evals, call, returned, df, out, first, request, feat>>

\* model.py:62-70: the lower neighbour is read and compared
CheckLower(t) ==
    /\ Local(t).pc = "lower"
    /\ LET keys == Local(t).sorted_thresholds
           current_idx == IndexOf(keys, Local(t).threshold)
       IN  IF current_idx > 1 /\ Local(t).raw > Deref(t)[keys[current_idx - 1]]
           THEN Resume(t, [Local(t) EXCEPT !.pc = "down",
                                           !.ref_prob = Deref(t)[keys[current_idx - 1]]])
           ELSE Resume(t, [Local(t) EXCEPT !.pc = "higher"])
    /\ UNCHANGED <<cache, evals, call, returned, df, out, first, request, feat>>

\* model.py:72-85: the corrected value is stored and returned
CorrectDown(t) ==
    /\ Local(t).pc = "down"
    /\ LET keys == Local(t).sorted_thresholds
           prev_threshold == keys[IndexOf(keys, Local(t).threshold) - 1]
           prev_prob == Local(t).ref_prob
           adjusted_prob == AdjustDown(prev_prob, Local(t).raw)
       IN  Assign(t, Local(t).threshold, adjusted_prob,
                  [Local(t) EXCEPT !.pc = "done",
                      !.result = [probability |-> adjusted_prob, adjusted |-> TRUE,
                                  method |-> "adjusted_down_from_lower",
                                  original_prob |-> Local(t).raw,
                                  reference_threshold |-> prev_threshold,
                                  reference_prob |-> prev_prob]])
    /\ UNCHANGED <<evals, call, returned, df, out, first, request, feat>>

\* model.py:88-93 and 110-115: the higher neighbour is read and compared
CheckHigher(t) ==
    /\ Local(t).pc = "higher"
    /\ LET keys == Local(t).sorted_thresholds
           current_idx == IndexOf(keys, Local(t).threshold)
       IN  IF current_idx < Len(keys) /\ Local(t).raw < Deref(t)[keys[current_idx + 1]]
           THEN Resume(t, [Local(t) EXCEPT !.pc = "up",
                                           !.ref_prob = Deref(t)[keys[current_idx + 1]]])
           ELSE Resume(t, [Local(t) EXCEPT !.pc = "done", !.result = RawMl(t)])
    /\ UNCHANGED <<cache, evals, call, returned, df, out, first, request, feat>>

\* model.py:95-108: the corrected value is stored and returned
CorrectUp(t) ==
    /\ Local(t).pc = "up"
    /\ LET keys == Local(t).sorted_thresholds
           next_threshold == keys[IndexOf(keys, Local(t).threshold) + 1]
           next_prob == Local(t).ref_prob
           adjusted_prob == AdjustUp(next_prob, Local(t).raw)
       IN  Assign(t, Local(t).threshold, adjusted_prob,
                  [Local(t) EXCEPT !.pc = "done",
                      !.result = [probability |-> adjusted_prob, adjusted |-> TRUE,
                                  method |-> "adjusted_up_from_higher",
                                  original_prob |-> Local(t).raw,
                                  reference_threshold |-> next_threshold,
                                  reference_prob |-> next_prob]])
    /\ UNCHANGED <<evals, call, returned, df, out, first, request, feat>>

NextConcurrent ==
    \E t \in Threads :
        \/ TestBucket(t)
        \/ CreateBucket(t)
        \/ BindBucket(t)
        \/ StoreRaw(t)
        \/ SortKeys(t)
        \/ CheckLower(t)
        \/ CorrectDown(t)
        \/ CheckHigher(t)
        \/ CorrectUp(t)

SpecConcurrent == InitConcurrent /\ [][NextConcurrent]_vars

----------------------------------------------------------------------------
(* Properties *)

LastPts == DfTail(df.PTS, RecentGames)

\* the last call was a final_over_probability call
Predicted == call.op = "predict"

\* the first part of the method string of the last outcome
Method == out.method_used[1]

\* the last call passed the insufficient-data and extreme-threshold tiers
PastEmpiricalTiers ==
    /\ Predicted
    /\ Len(LastPts) >= 5
    /\ ~ExtremeHigh(LastPts, call.threshold)
    /\ ~ExtremeLow(LastPts, call.threshold)

\* the label of the feature frame of the last call has a single class
SingleClass ==
    \A i, j \in FeatureRows(LastPts) :
        Gt(LastPts[i], call.threshold) = Gt(LastPts[j], call.threshold)

\* C1: from a freshly reset cache, after one call for each of two thresholds
\* t1 < t2 of one fingerprint, in either order, the probability returned for
\* t1 is at least the one returned for t2.
C1_TwoThresholdsMonotone ==
    \A h \in DOMAIN returned :
        \A t1, t2 \in DOMAIN returned[h] :
            (evals = 2 /\ t1 < t2) => returned[h][t1] >= returned[h][t2]

C1_Witness ==
    /\ evals = 2
    /\ call.op = "enforce"
    /\ call.result.adjusted
    /\ Cardinality(DOMAIN returned[call.fp]) = 2

\* C2: in every bucket the stored probabilities are non-increasing in the
\* threshold, after any sequence of calls.
C2_BucketNonIncreasing ==
    \A h \in DOMAIN cache :
        \A ta, tb \in DOMAIN cache[h] :
            ta < tb => cache[h][ta] >= cache[h][tb]

\* C3: the probability of every outcome of final_over_probability is a number
\* between 0 and 100 (0 and 10000 hundredths), for every series, the empty
\* one included.
C3_ProbabilityInRange ==
    Predicted => out.probability \in 0..10000

\* C4: once past the empirical tiers, a failure of feature construction, of
\* training or of scoring ends in a returned outcome: the recency-weighted
\* over-rate, confidence low, not adjusted, method fallback_error.
C4_Failed ==
    /\ PastEmpiricalTiers
    /\ \/ ~df.stats
       \/ /\ Cardinality(FeatureRows(LastPts)) >= 8
          /\ (call.answer.fault # "none" \/ SingleClass)

C4_FailureFallsBack ==
    C4_Failed =>
        /\ "probability" \in DOMAIN out
        /\ out.probability = WeightedProb(LastPts, call.threshold)
        /\ out.confidence = "low"
        /\ out.adjusted = FALSE
        /\ Method = "fallback_error"

C4_Witness ==
    /\ C4_Failed
    /\ out.method_used = <<"fallback_error", "estimator">>
    /\ out.probability \notin {0, 10000}

\* C5 (as amended): when the label of the feature frame has a single class,
\* the ValueError train_ensemble_model raises is caught by
\* final_over_probability, which returns the fallback outcome carrying the
\* reason in its method string.
C5_Insufficient ==
    /\ PastEmpiricalTiers
    /\ df.stats
    /\ Cardinality(FeatureRows(LastPts)) >= 8
    /\ call.answer.fault # "Non abbastanza feature valide"
    /\ SingleClass

C5_InsufficientVarianceFallsBack ==
    C5_Insufficient =>
        /\ "probability" \in DOMAIN out
        /\ out.probability = WeightedProb(LastPts, call.threshold)
        /\ out.confidence = "low"
        /\ out.method_used =
             <<"fallback_error", "Soglia troppo estrema: nessuna variabilita OVER/UN">>

C5_Witness ==
    /\ C5_Insufficient
    /\ \E i \in 1..Len(LastPts) : Gt(LastPts[i], call.threshold)
    /\ Method = "fallback_error"

\* C5 (as stated): with a single-class label the call surfaces a failure and
\* returns no probability.
C5_InsufficientVarianceSurfaced ==
    C5_Insufficient => "probability" \notin DOMAIN out

\* C6: fewer than 5 recent games always give empirical_fallback, very_low,
\* not adjusted; 5 or more never give empirical_fallback.
C6_TierBoundary ==
    Predicted =>
        /\ Len(LastPts) < 5 =>
              /\ out.method_used = <<"empirical_fallback", "">>
              /\ out.confidence = "very_low"
              /\ out.adjusted = FALSE
        /\ Len(LastPts) >= 5 => Method # "empirical_fallback"

C6_Witness ==
    /\ Predicted
    /\ Len(LastPts) = 4
    /\ cache # EmptyDict
    /\ Method = "empirical_fallback"

\* C7: every call resolves to exactly one tier, taken in the order
\* insufficient data, extreme high, extreme low, feature-starved, ensemble;
\* the two extreme conditions never hold together.
C7_TierOrder ==
    /\ \A t \in Thresholds : ~(ExtremeHigh(LastPts, t) /\ ExtremeLow(LastPts, t))
    /\ Predicted =>
        LET n == Len(LastPts)
            high == ExtremeHigh(LastPts, call.threshold)
            low == ExtremeLow(LastPts, call.threshold)
            rows == Cardinality(FeatureRows(LastPts))
        IN  /\ Method \in {"empirical_fallback", "extreme_threshold_high",
                           "extreme_threshold_low", "weighted_empirical",
                           "ensemble_ml", "fallback_error"}
            /\ Method = "empirical_fallback" <=> n < 5
            /\ Method = "extreme_threshold_high" <=> (n >= 5 /\ high)
            /\ Method = "extreme_threshold_low" <=> (n >= 5 /\ ~high /\ low)
            /\ Method = "weighted_empirical" <=>
                  (n >= 5 /\ ~high /\ ~low /\ df.stats /\ rows < 8)
            /\ Method = "ensemble_ml" =>
                  (n >= 5 /\ ~high /\ ~low /\ rows >= 8)

C7_Witness ==
    /\ Predicted
    /\ Method = "extreme_threshold_low"
    /\ Cardinality(FeatureRows(LastPts)) < 8

\* C8: a call that does not end in the ensemble tier, or is made with
\* enforce_mono = false, leaves the whole cache as it was and is not adjusted.
C8_CacheUntouched ==
    [][(call'.op = "predict" /\ (~call'.enforce_mono \/ out'.method_used[1] # "ensemble_ml"))
          => (cache' = cache /\ out'.adjusted = FALSE)]_vars

C8_Witness ==
    /\ Predicted
    /\ ~call.enforce_mono
    /\ out.method_used = <<"ensemble_ml", "no_adjustment">>
    /\ \E h \in GetPlayerHash(df) : h \in DOMAIN cache

\* C9: a call made on a freshly reset cache returns the outcome the first call
\* of the behaviour returned for the same threshold, enforce_mono and ensemble
\* answer.
C9_SameArguments ==
    /\ Predicted
    /\ first.set
    /\ call.after \in {"reset", "wipe"}
    /\ call.threshold = first.threshold
    /\ call.enforce_mono = first.enforce_mono
    /\ call.answer = first.answer

C9_Idempotent == C9_SameArguments => out = first.out

C9_Witness ==
    /\ C9_SameArguments
    /\ call.after = "wipe"
    /\ out.method_used = <<"ensemble_ml", "raw_ml">>

\* C10: clear_cache leaves no bucket, and the call that follows it returns its
\* raw probability, not adjusted.
C10_ClearForgets ==
    /\ call.op = "clear" => DOMAIN cache = {}
    /\ (call.op = "enforce" /\ call.after \in {"reset", "wipe"}) =>
          call.result = [probability |-> call.raw, adjusted |-> FALSE,
                         method |-> "raw_ml"]

C10_Witness ==
    /\ call.op = "enforce"
    /\ call.after = "wipe"

\* C11: calls made on the same recent point sequence share one bucket: the
\* cache never holds two buckets whose fingerprints were computed from the
\* same sequence.
C11_SameSequenceOneBucket ==
    \A h1, h2 \in DOMAIN cache : h1[1] = h2[1] => h1 = h2

\* the two calls made one after the other, thread a first
Serial(a, b) ==
    LET one == EnforceMonotonicity(running.start, ConcHash, Local(a).threshold, Local(a).raw)
        two == EnforceMonotonicity(one.cache, ConcHash, Local(b).threshold, Local(b).raw)
    IN  [cache |-> two.cache, earlier |-> one.result, later |-> two.result]

\* C12: when two concurrent calls for one fingerprint have both returned,
\* their results and the cache are those of one of the two serial orders.
C12_Serializable ==
    (\A t \in Threads : Local(t).pc = "done") =>
        \E a, b \in Threads :
            /\ a # b
            /\ cache = Serial(a, b).cache
            /\ Local(a).result = Serial(a, b).earlier
            /\ Local(b).result = Serial(a, b).later

\* C14: every outcome carries a boolean adjusted flag; it is true exactly
\* when the method is one of the two corrections of the enforcer, and exactly
\* then the outcome carries the reference threshold and probability, which
\* are the recorded threshold next to the evaluated one, on the side the
\* method names, and the probability stored for it.
C14_AdjustedFlag ==
    Predicted =>
        /\ "adjusted" \in DOMAIN out
        /\ out.adjusted \in BOOLEAN
        /\ out.adjusted <=>
              out.method_used \in {<<"ensemble_ml", "adjusted_down_from_lower">>,
                                   <<"ensemble_ml", "adjusted_up_from_higher">>}
        /\ out.adjusted <=> "adjustment_info" \in DOMAIN out
        /\ out.adjusted =>
              LET bucket == cache[call.fp]
                  ref == out.adjustment_info.reference_threshold
                  lower == {t \in DOMAIN bucket : t < call.threshold}
                  higher == {t \in DOMAIN bucket : t > call.threshold}
              IN  /\ ref \in lower \cup higher
                  /\ out.adjustment_info.reference_prob = Round2(bucket[ref])
                  /\ out.method_used[2] = "adjusted_down_from_lower" =>
                        (ref \in lower /\ \A t \in lower : t <= ref)
                  /\ out.method_used[2] = "adjusted_up_from_higher" =>
                        (ref \in higher /\ \A t \in higher : t >= ref)

C14_Witness ==
    /\ Predicted
    /\ out.adjusted
    /\ out.method_used[2] = "adjusted_up_from_higher"
    /\ out.probability # out.original_probability

\* C15: an outcome of the ensemble tier is labelled by the number of recent
\* games: high from 25, medium from 15 to 24, low below; an outcome of any
\* other tier is neither high nor medium.
C15_ConfidenceLabel ==
    Predicted =>
        LET n_games == Len(LastPts)
        IN  /\ Method = "ensemble_ml" =>
                  /\ n_games >= 25 => out.confidence = "high"
                  /\ (n_games >= 15 /\ n_games < 25) => out.confidence = "medium"
                  /\ n_games < 15 => out.confidence = "low"
            /\ Method # "ensemble_ml" => out.confidence \in {"low", "very_low"}

C15_Witness ==
    /\ Predicted
    /\ Method = "ensemble_ml"
    /\ Len(LastPts) = 25
    /\ out.confidence = "high"

\* C16: a step that is not clear_cache keeps every bucket and every threshold
\* recorded in it: the recorded (fingerprint, threshold) keys only grow
\* between two resets.
C16_NoEviction ==
    [][call'.op # "clear" =>
          \A h \in DOMAIN cache :
              /\ h \in DOMAIN cache'
              /\ DOMAIN cache[h] \subseteq DOMAIN cache'[h]]_vars

C16_Witness ==
    /\ call.op = "enforce"
    /\ evals = 4
    /\ Cardinality(DOMAIN cache) = 2
    /\ Cardinality(DOMAIN cache[call.fp]) = 3

\* the series 20, 22, 18, 25, 30, 15, 28, 19, 24, 27 and the threshold 22.5,
\* both counted in half points
ExamplePts == <<40, 44, 36, 50, 60, 30, 56, 38, 48, 54>>
ExampleLine == 45

\* C19: the probability of an outcome of the empirical tiers is 100 k / n, to
\* the hundredth the outcome is rounded to, where k counts the recent games
\* with points strictly above the threshold and n the recent games; for the
\* example series it is 50.
C19_EmpiricalOverRate ==
    /\ EmpiricalProb(ExamplePts, ExampleLine) = 5000
    /\ (/\ Predicted
        /\ Method \in {"empirical_fallback", "extreme_threshold_high",
                        "extreme_threshold_low"}
        /\ Len(LastPts) > 0) =>
          LET n == Len(LastPts)
              k == Cardinality({i \in 1..n : LastPts[i] # NaN /\ LastPts[i] > call.threshold})
              off == out.probability * n - 10000 * k
          IN  /\ 2 * off <= n
              /\ -2 * off <= n

C19_Witness ==
    /\ Predicted
    /\ Method = "extreme_threshold_low"
    /\ out.probability = 6667

\* C20: a call whose threshold is the only one of its bucket, or whose raw
\* probability is at most the probability stored for the next lower
\* threshold (if any) and at least the one stored for the next higher
\* threshold (if any), returns the raw probability, not adjusted, and leaves
\* it stored for the threshold.
C20_Unviolated ==
    /\ call.op = "enforce"
    /\ LET bucket == cache[call.fp]
           lower == {t \in DOMAIN bucket : t < call.threshold}
           higher == {t \in DOMAIN bucket : t > call.threshold}
       IN  /\ \A t \in lower : (\A u \in lower : u <= t) => call.raw <= bucket[t]
           /\ \A t \in higher : (\A u \in higher : u >= t) => call.raw >= bucket[t]

C20_RawReturned ==
    C20_Unviolated =>
        /\ call.result = [probability |-> call.raw, adjusted |-> FALSE,
                          method |-> "raw_ml"]
        /\ cache[call.fp][call.threshold] = call.raw

C20_Witness ==
    /\ C20_Unviolated
    /\ Cardinality(DOMAIN cache[call.fp]) = 3
    /\ \E lo, hi \in DOMAIN cache[call.fp] :
          /\ lo < call.threshold
          /\ call.threshold < hi
          /\ cache[call.fp][lo] = call.raw
          /\ cache[call.fp][hi] < call.raw

\* the lines of the request's text that survive the filters of the parser
Surviving == SelectSeq(request.csv.rows, Kept)

\* C13: parsing fails, and returns no frame, when the text has no header,
\* when no line survives filtering, or when the rank or the date column is
\* absent.
C13_Unusable ==
    /\ request.status \in {"parsed", "failed"}
    /\ \/ request.csv.columns = {}
       \/ "Rk" \notin request.csv.columns
       \/ "Date" \notin request.csv.columns
       \/ Len(Surviving) = 0

C13_UnusableTextFails == C13_Unusable => request.status = "failed"

\* C17: the lines of games not played are left out of the series, so the
\* game count final_over_probability selects its tier by counts games with
\* points only.
C17_CountsGamesPlayed ==
    (request.status = "parsed" /\ Predicted) =>
        LET played == Cardinality({i \in 1..Len(Surviving) : Surviving[i].PTS # Marker})
        IN  /\ \A i \in 1..Len(df.PTS) : df.PTS[i] # NaN
            /\ Len(LastPts) = played
            /\ Method = "empirical_fallback" <=> played < 5

\* the positions of the streak column that hold a streak value, not the 0 of
\* a game with absent points
Counted == {i \in 1..Len(feat.streak) : feat.streak[i] # 0}

\* positions i < j that hold successive streak values
Successive(i, j) ==
    /\ i \in Counted
    /\ j \in Counted
    /\ i < j
    /\ \A k \in Counted : ~(i < k /\ k < j)

\* C18: in the streak column, a value whose sign is opposite to the sign of
\* the streak value before it (the 0 of games with absent points left aside)
\* is +1 or -1.
C18_SignFlipsThroughUnit ==
    feat.built =>
        \A i, j \in 1..Len(feat.streak) :
            (Successive(i, j) /\ (feat.streak[i] > 0) # (feat.streak[j] > 0)) =>
                feat.streak[j] \in {1, -1}

C18_Witness ==
    /\ feat.built
    /\ \E i, j \in 1..Len(feat.streak) :
          /\ Successive(i, j)
          /\ j > i + 1
          /\ feat.streak[i] >= 3
          /\ feat.streak[j] = -1

\* the bucket the last enforce_monotonicity call worked on, as it left it
CallBucket == cache[call.fp]

\* the greatest recorded threshold strictly below the one evaluated, if any
LowerNeighbours ==
    {t \in DOMAIN CallBucket :
        /\ t < call.threshold
        /\ \A u \in DOMAIN CallBucket : u < call.threshold => u <= t}

\* the least recorded threshold strictly above the one evaluated, if any
HigherNeighbours ==
    {t \in DOMAIN CallBucket :
        /\ t > call.threshold
        /\ \A u \in DOMAIN CallBucket : u > call.threshold => u >= t}

\* the last call found its raw probability above the one stored for the
\* lower neighbour
C21_ExceedsLower ==
    /\ call.op = "enforce"
    /\ \E lo \in LowerNeighbours : call.raw > CallBucket[lo]

\* C21 (as amended): when the raw probability exceeds the probability stored
\* for the lower neighbour, the call returns the neighbour's probability
\* reduced by half the excess, the reduction capped at 0.5, clamped to >= 0,
\* with method adjusted_down_from_lower.
C21_CorrectsBelowLower ==
    C21_ExceedsLower =>
        \A lo \in LowerNeighbours :
            LET excess == call.raw - CallBucket[lo]
                reduction == IF excess \div 2 > HalfPoint THEN HalfPoint ELSE excess \div 2
                reduced == CallBucket[lo] - reduction
            IN  /\ call.result.probability = IF reduced < 0 THEN 0 ELSE reduced
                /\ call.result.method = "adjusted_down_from_lower"
                /\ call.result.adjusted

C21_Witness ==
    /\ C21_ExceedsLower
    /\ \E lo \in LowerNeighbours :
          /\ call.raw - CallBucket[lo] = HalfPoint
          /\ call.result.probability = CallBucket[lo] - HalfPoint \div 2

\* C21 (as stated): the call returns the raw probability reduced by half the
\* excess, the reduction capped at 0.5, clamped to >= 0.
C21_ReducesCurrent ==
    C21_ExceedsLower =>
        \A lo \in LowerNeighbours :
            LET excess == call.raw - CallBucket[lo]
                reduction == IF excess \div 2 > HalfPoint THEN HalfPoint ELSE excess \div 2
                reduced == call.raw - reduction
            IN  /\ call.result.probability = IF reduced < 0 THEN 0 ELSE reduced
                /\ call.result.method = "adjusted_down_from_lower"

\* the last call found the lower bound kept and its raw probability below the
\* one stored for the higher neighbour
C22_BelowHigher ==
    /\ call.op = "enforce"
    /\ \A lo \in LowerNeighbours : call.raw <= CallBucket[lo]
    /\ \E hi \in HigherNeighbours : call.raw < CallBucket[hi]

C23_StoredIsReturned ==
    call.op = "enforce" => CallBucket[call.threshold] = call.result.probability

C23_Witness ==
    /\ call.op = "enforce"
    /\ call.result.adjusted
    /\ CallBucket[call.threshold] # call.raw
    /\ Cardinality(DOMAIN CallBucket) = 3

\* the last call found its raw probability above the one stored for the lower
\* neighbour and below the one stored for the higher neighbour
C24_ViolatesBoth ==
    /\ call.op = "enforce"
    /\ \E lo \in LowerNeighbours : call.raw > CallBucket[lo]
    /\ \E hi \in HigherNeighbours : call.raw < CallBucket[hi]

\* C24: when the raw probability exceeds the probability stored for the lower
\* neighbour and is below the one stored for the higher neighbour, the call
\* corrects downward from the lower neighbour alone, and every other entry of
\* the bucket, the higher neighbour's included, is the one last returned for
\* its threshold.
C24_LowerCheckWins ==
    C24_ViolatesBoth =>
        \A lo \in LowerNeighbours :
            /\ call.result.method = "adjusted_down_from_lower"
            /\ call.result.reference_threshold = lo
            /\ call.result.reference_prob = CallBucket[lo]
            /\ call.result.probability = AdjustDown(CallBucket[lo], call.raw)
            /\ call.result.probability <= CallBucket[lo]
            /\ \A t \in DOMAIN CallBucket :
                  t # call.threshold => CallBucket[t] = returned[call.fp][t]

C24_Witness ==
    /\ C24_ViolatesBoth
    /\ call.result.adjusted
    /\ \E hi \in HigherNeighbours : CallBucket[hi] > call.result.probability

\* C25: the reference of a correction is the recorded threshold next to the
\* evaluated one in numeric order, whatever the order of insertion: the
\* greatest recorded threshold strictly below it for a downward correction,
\* the least strictly above it for an upward one.
C25_NumericNeighbours ==
    (call.op = "enforce" /\ call.result.adjusted) =>
        /\ call.result.method = "adjusted_down_from_lower" =>
              /\ call.result.reference_threshold \in LowerNeighbours
              /\ call.result.reference_prob = CallBucket[call.result.reference_threshold]
        /\ call.result.method = "adjusted_up_from_higher" =>
              /\ call.result.reference_threshold \in HigherNeighbours
              /\ call.result.reference_prob = CallBucket[call.result.reference_threshold]
              /\ \A lo \in LowerNeighbours : call.raw <= CallBucket[lo]

C25_Witness ==
    /\ call.op = "enforce"
    /\ evals = 3
    /\ DOMAIN CallBucket = {15, 20, 25}
    /\ call.threshold = 20
    /\ call.result.method = "adjusted_up_from_higher"
    /\ call.result.reference_threshold = 25

\* the series the streak column was computed on
StreakPts == DfTail(df.PTS, RecentGames)

\* the counter before game i: the streak value of the last game before it
\* that has points, 0 when there is none
CounterBefore(i) ==
    LET earlier == {j \in 1..(i - 1) : StreakPts[j] # NaN}
    IN  IF earlier = {} THEN 0
        ELSE feat.streak[CHOOSE j \in earlier : \A k \in earlier : k <= j]

\* C26: the streak column has one value per game: 0 for a game with absent
\* points; for an over (points strictly above the threshold) the counter
\* before it plus 1 when that counter is >= 0, else +1; for a not-over the
\* counter before it minus 1 when that counter is <= 0, else -1; the counter
\* before a game is the value of the last game with points, so a gap leaves
\* it unchanged.
C26_RunningCounter ==
    feat.built =>
        /\ Len(feat.streak) = Len(StreakPts)
        /\ \A i \in 1..Len(StreakPts) :
              feat.streak[i] =
                 IF StreakPts[i] = NaN THEN 0
                 ELSE IF StreakPts[i] > feat.point_line
                 THEN (IF CounterBefore(i) >= 0 THEN CounterBefore(i) + 1 ELSE 1)
                 ELSE (IF CounterBefore(i) <= 0 THEN CounterBefore(i) - 1 ELSE -1)

C26_Witness ==
    /\ feat.built
    /\ \E i \in 2..(Len(StreakPts) - 2) :
          /\ feat.streak[i - 1] = 2
          /\ StreakPts[i] = NaN
          /\ feat.streak[i + 1] = 3
          /\ StreakPts[i + 2] = feat.point_line
          /\ feat.streak[i + 2] = -1

\* C27: for the series of the request, the empirical over-rate and (where it
\* is computed, from 5 games) the recency-weighted over-rate are numbers
\* between 0 and 100 that do not increase with the threshold, and so is the
\* probability of every outcome of the empirical and weighted tiers.
C27_EmpiricalTiersConsistent ==
    Predicted =>
        /\ Method \in {"empirical_fallback", "extreme_threshold_high",
                       "extreme_threshold_low", "weighted_empirical"} =>
              out.probability \in 0..10000
        /\ \A t \in Thresholds : EmpiricalProb(LastPts, t) \in 0..10000
        /\ \A t1, t2 \in Thresholds :
              t1 < t2 => EmpiricalProb(LastPts, t1) >= EmpiricalProb(LastPts, t2)
        /\ Len(LastPts) >= 5 =>
              /\ \A t \in Thresholds : WeightedProb(LastPts, t) \in 0..10000
              /\ \A t1, t2 \in Thresholds :
                    t1 < t2 => WeightedProb(LastPts, t1) >= WeightedProb(LastPts, t2)

AllPresent(pts) == \A i \in 1..Len(pts) : pts[i] # NaN

NonExtreme(pts, t) == ~ExtremeHigh(pts, t) /\ ~ExtremeLow(pts, t)

\* C28: a series of n games with all points present keeps n - 2 feature rows;
\* with the statistic columns present and a non-extreme threshold a series of
\* 5 to 9 games gives weighted_empirical, the ensemble is reached only from
\* 10 games, and a 5-game series never has 8 feature rows.
C28_FeatureRowsCount ==
    /\ \A n \in 5..10 : \A pat \in {<<20>>, <<10, 30>>} :
          LET pts == Cyc(n, pat)
          IN  /\ Cardinality(FeatureRows(pts)) = n - 2
              /\ \A t \in Thresholds :
                    (n <= 9 /\ NonExtreme(pts, t)) =>
                        Tier(pts, TRUE, FeatureRows(pts), t) = "weighted_empirical"
    /\ Predicted =>
          LET n == Len(LastPts)
              rows == Cardinality(FeatureRows(LastPts))
          IN  /\ (AllPresent(LastPts) /\ n >= 2) => rows = n - 2
              /\ (AllPresent(LastPts) /\ df.stats /\ n \in 5..9
                    /\ NonExtreme(LastPts, call.threshold)) =>
                        out.method_used = <<"weighted_empirical", "">>
              /\ (Method = "ensemble_ml" \/ (Method = "fallback_error" /\ df.stats)) =>
                    n >= 10
              /\ n = 5 => rows < 8

C28_Witness ==
    /\ Predicted
    /\ Len(LastPts) = 9
    /\ AllPresent(LastPts)
    /\ NonExtreme(LastPts, call.threshold)
    /\ Cardinality(FeatureRows(LastPts)) = 7
    /\ Method = "weighted_empirical"

\* C29: thresholds evaluated once each in strictly ascending or strictly
\* descending order from a fresh cache: after every call the probabilities a
\* bucket stores, which are the ones returned, do not increase with the
\* threshold.
C29_OrderedNonIncreasing ==
    /\ returned = cache
    /\ \A h \in DOMAIN cache :
          \A t1, t2 \in DOMAIN cache[h] :
              t1 < t2 => cache[h][t1] >= cache[h][t2]

C29_Witness ==
    /\ call.op = "enforce"
    /\ Cardinality(DOMAIN CallBucket) = 4
    /\ call.threshold = 30
    /\ call.result.method = "adjusted_down_from_lower"
    /\ CallBucket[15] > CallBucket[20]

\* a descending list whose last call is corrected upwards
C29_Descending ==
    /\ call.op = "enforce"
    /\ Cardinality(DOMAIN CallBucket) = 4
    /\ call.threshold = 15
    /\ call.result.method = "adjusted_up_from_higher"

\* C30: a call made again with the same fingerprint, threshold and raw
\* probability, no other call in between, returns the probability, method
\* and adjusted flag of the first call and leaves the cache as the first
\* call left it.
C30_RepeatIdempotent ==
    (first.set /\ evals >= 2) =>
        /\ call.fp = first.fp
        /\ call.threshold = first.threshold
        /\ call.raw = first.raw
        /\ call.result = first.result
        /\ cache = first.cache

C30_Witness ==
    /\ first.set
    /\ evals = 2
    /\ call.result.adjusted
    /\ Cardinality(DOMAIN CallBucket) = 3
    /\ CallBucket[call.threshold] # call.raw

\* C30 as a property of two successive calls of Spec
C30_RepeatedStep ==
    [][(/\ call.op = "enforce"
        /\ call'.op = "enforce"
        /\ call'.fp = call.fp
        /\ call'.threshold = call.threshold
        /\ call'.raw = call.raw)
          => (call'.result = call.result /\ cache' = cache)]_vars

====
